---- MODULE Spec2Model ----
(***************************************************************************)
(* libremidi backend drivers: the JACK source (midi_in_jack) and the ALSA  *)
(* sequencer sink (midi_out_alsa).                                         *)
(*                                                                         *)
(*   SpecJack  the JACK source's lifecycle operations on the caller thread *)
(*             interleaved with the process callback on the JACK thread    *)
(*   SpecAsm   the JACK process callback alone (message reassembly) on an  *)
(*             open port                                                   *)
(*   SpecAlsa  the ALSA sink's operations on the caller thread             *)
(***************************************************************************)
EXTENDS Integers, Sequences, FiniteSets, TLC

(***************************************************************************)
(* Bounds of the model.                                                    *)
(***************************************************************************)
\* longest native fragment (event.size) the JACK server hands to the callback
MaxFragLen == 2
\* longest accumulated message (message.bytes) that is still extended
MaxAcc == 3
\* largest value of the native clock (jack_get_time)
MaxTime == 1
\* most remote endpoints the native subsystem enumerates
MaxPorts == 1
\* events the server delivers while lifecycle operations run (SpecJack)
MaxRaceEvents == 1
\* most MIDI events in one message given to send_message
MaxSendEvents == 1
\* bits of an unsigned int (32 in the build, scaled down)
UintBits == 6
\* nested calls the stack holds before it is exhausted
MaxCallDepth == 2

(***************************************************************************)
(* MIDI status bytes the callback switches on.                             *)
(***************************************************************************)
SYSEX_START == 240
TIME_CODE == 241
SYSEX_END == 247
TIMING_CLOCK == 248
ACTIVE_SENSING == 254

\* the status bytes above and a data byte
Bytes == {SYSEX_START, TIME_CODE, SYSEX_END, TIMING_CLOCK, ACTIVE_SENSING, 1}

SeqsUpTo(S, n) == UNION {[1..k -> S] : k \in 1..n}

\* the non-empty native fragments (event.buffer, event.size)
Fragments == SeqsUpTo(Bytes, MaxFragLen)

\* single-byte fragments: the ones delivered while lifecycle operations run
ShortFragments == {f \in Fragments : Len(f) = 1}

Last(s) == s[Len(s)]

NoMsg == [timestamp |-> -1, bytes |-> <<>>]

VARIABLES
  \* ---- JACK source: midi_in_jack fields and the native server's view
  client,          \* this->client: "null" | "open" | "closed"
  port,            \* this->port: "null" | "port"
  connected_,      \* midi_in_api::connected_
  registered,      \* native: the handle "port" is registered with the server
  conns,           \* native: remote endpoints connected to the local port
  nports,          \* native: number of remote output endpoints enumerated
  lastBind,        \* outcome of the most recent jack_connect: "none"|"ok"|"failed"
  jk_pc,           \* caller thread: "idle" | "close_87" | "dtor_87" | "dead"
  jk_op,           \* last caller operation: [name, bind, reports, ret]
  \* ---- JACK process callback (delivery thread)
  cb_pc,           \* "idle" | "l165" | "loop"
  cb_buf,          \* buff: "none" | "valid" | "stale" | "null"
  cb_left,         \* events the server still delivers (SpecJack)
  \* ---- reassembly state (midi_in_api fields, configuration)
  continueSysex,
  firstMessage,
  lastTime,
  message,         \* self.message.bytes
  ignore_sysex,
  ignore_timing,
  ignore_sensing,
  out,             \* message handed to on_message by the last event, or NoMsg
  \* ---- history of the reassembly
  msg_timing,      \* per byte of message: from a timing fragment under ignore_timing
  out_timing,      \* the same for out.bytes
  sx,              \* [st, bytes]: the well-formed split SysEx in progress
  deliveries,      \* messages delivered so far: 0, 1, 2 (= two or more)
  \* ---- ALSA sink: midi_out_alsa fields and the native sequencer's view
  seq,             \* this->seq: "null" | "open" | "closed"
  vport,           \* this->vport: -1 (none) or the local port 0
  coder,           \* this->coder: "null" | "coder" | "freed"
  bufferSize,      \* this->bufferSize
  coderCap,        \* native: the capacity of the encoder's buffer
  subscription,    \* this->subscription: "null" | "alloc" | "freed"
  alsa_connected_, \* midi_out_api::connected_
  subs,            \* native: remote endpoints the local port is subscribed to
  alsa_nports,     \* native: number of remote writable endpoints enumerated
  ctor,            \* how construction ended: "ok" | "no_seq" | "no_coder"
  al_pc,           \* caller thread: "live" | "aborted" | "dead", and in
                   \* set_client_name / set_port_name: "renaming" | "spinning"
  al_op            \* last operation: [name, reports, absent, bind, calls,
                   \*                  size, ret]

jackVars == <<client, port, connected_, registered, conns, nports, lastBind,
              jk_pc, jk_op>>
cbVars == <<cb_pc, cb_buf, cb_left>>
asmVars == <<continueSysex, firstMessage, lastTime, message, out,
             msg_timing, out_timing, sx, deliveries>>
cfgVars == <<ignore_sysex, ignore_timing, ignore_sensing>>

alsaVars == <<seq, vport, coder, bufferSize, coderCap, subscription,
              alsa_connected_, subs, alsa_nports, ctor, al_pc, al_op>>

vars == <<jackVars, cbVars, asmVars, cfgVars, alsaVars>>

(***************************************************************************)
(* JACK process callback: one event of the loop of jackProcessIn.          *)
(***************************************************************************)

\* m.timestamp of the event: zero for the first event ever processed, the
\* clock difference to the previous event (in microseconds) otherwise
EventTimestamp(first, t, last) == IF first THEN 0 ELSE t - last

\* if (!self.continueSysex) m.clear();
ClearedBytes(cs, bytes) == IF ~cs THEN <<>> ELSE bytes

\* (mutant) the copy is skipped for the SysEx start only
CopiesFragmentStartOnly(cs, frag, isx) == ~(frag[1] = SYSEX_START /\ isx)

\* the event buffer is copied unless this is a (possibly continued) SysEx
\* message and SysEx is ignored
CopiesFragment(cs, frag, isx) == ~((cs \/ frag[1] = SYSEX_START) /\ isx)

\* (mutant) the fragment is inserted at m.bytes.begin()
InsertAtBegin(bytes, frag) == frag \o bytes

\* m.bytes.insert(m.bytes.end(), event.buffer, event.buffer + event.size)
InsertAtEnd(bytes, frag) == bytes \o frag

\* event.buffer[event.size - 1] != 0xF7
Unterminated(frag) == Last(frag) # SYSEX_END

\* (mutant) a timing-class fragment ends the pending continuation
ContinueSysexClearedByTiming(cs, frag) ==
  CASE frag[1] = SYSEX_START -> Unterminated(frag)
    [] frag[1] \in {TIME_CODE, TIMING_CLOCK} -> FALSE
    [] frag[1] = ACTIVE_SENSING -> cs
    [] OTHER -> IF cs THEN Unterminated(frag) ELSE cs

\* self.continueSysex after the switch on event.buffer[0]
NextContinueSysex(cs, frag) ==
  CASE frag[1] = SYSEX_START -> Unterminated(frag)
    [] frag[1] \in {TIME_CODE, TIMING_CLOCK} -> cs
    [] frag[1] = ACTIVE_SENSING -> cs
    [] OTHER -> IF cs THEN Unterminated(frag) ELSE cs

\* the switch leaves the iteration by `continue`: nothing is delivered
Skips(cs, frag, isx, itm, isn) ==
  CASE frag[1] = SYSEX_START -> isx
    [] frag[1] \in {TIME_CODE, TIMING_CLOCK} -> itm
    [] frag[1] = ACTIVE_SENSING -> isn
    [] OTHER -> cs /\ isx

\* if (!self.continueSysex) after the switch: on_message(std::move(m))
Delivers(cs, frag, isx, itm, isn) ==
  ~Skips(cs, frag, isx, itm, isn) /\ ~NextContinueSysex(cs, frag)

\* history: the fragment is a timing-class fragment that ignore_timing filters
TimingFiltered(frag, itm) == frag[1] \in {TIME_CODE, TIMING_CLOCK} /\ itm

\* history: a continuation fragment, i.e. none of the classes the switch names
IsContinuation(frag) ==
  frag[1] \notin {SYSEX_START, TIME_CODE, TIMING_CLOCK, ACTIVE_SENSING}

NoSx == [st |-> "none", bytes |-> <<>>]

\* history: the fragment's final byte is the SysEx terminator
EndsSysex(frag) == frag[Len(frag)] = SYSEX_END

\* history: the split SysEx message that starts, with SysEx not ignored,
\* while no continuation is pending and is followed by continuation
\* fragments only
SxNext(sxv, cs, frag, isx) ==
  IF isx THEN NoSx
  ELSE IF frag[1] = SYSEX_START /\ ~cs
  THEN IF ~EndsSysex(frag) THEN [st |-> "run", bytes |-> frag] ELSE NoSx
  ELSE IF sxv.st = "run" /\ IsContinuation(frag)
       THEN [st |-> IF ~EndsSysex(frag) THEN "run" ELSE "done",
             bytes |-> sxv.bytes \o frag]
       ELSE NoSx

Flags(n, b) == [i \in 1..n |-> b]

\* one iteration of the loop over the cycle's events (j < evCount)
ProcessEvent(frag, t) ==
  /\ cb_pc = "loop"
  /\ Len(ClearedBytes(continueSysex, message)) + Len(frag) <= MaxAcc
  /\ LET ts == EventTimestamp(firstMessage, t, lastTime)
         copy == CopiesFragment(continueSysex, frag, ignore_sysex)
         b0 == ClearedBytes(continueSysex, message)
         g0 == ClearedBytes(continueSysex, msg_timing)
         b1 == IF copy THEN InsertAtEnd(b0, frag) ELSE b0
         g1 == IF copy
               THEN g0 \o Flags(Len(frag), TimingFiltered(frag, ignore_timing))
               ELSE g0
         deliver == Delivers(continueSysex, frag, ignore_sysex, ignore_timing,
                             ignore_sensing)
     IN /\ firstMessage' = FALSE
        /\ lastTime' = t
        /\ continueSysex' = NextContinueSysex(continueSysex, frag)
        /\ message' = IF deliver THEN <<>> ELSE b1
        /\ msg_timing' = IF deliver THEN <<>> ELSE g1
        /\ out' = IF deliver THEN [timestamp |-> ts, bytes |-> b1] ELSE NoMsg
        /\ out_timing' = IF deliver THEN g1 ELSE <<>>
        /\ deliveries' = IF deliver /\ deliveries < 2 THEN deliveries + 1
                         ELSE deliveries
        /\ sx' = SxNext(sx, continueSysex, frag, ignore_sysex)
  /\ UNCHANGED <<cb_pc, cb_buf, jackVars, cfgVars, alsaVars>>

\* an event delivered while the caller thread is at work
CbEventRace(frag, t) ==
  /\ cb_left > 0
  /\ cb_left' = cb_left - 1
  /\ ProcessEvent(frag, t)

\* an event delivered on a port that stays open
CbEvent(frag, t) ==
  /\ UNCHANGED cb_left
  /\ ProcessEvent(frag, t)

\* if (self.port == nullptr) return 0;
CbCheckPort ==
  /\ cb_pc = "idle"
  /\ client = "open"
  /\ cb_pc' = IF port = "null" THEN "idle" ELSE "l165"
  /\ UNCHANGED <<cb_buf, cb_left, jackVars, asmVars, cfgVars, alsaVars>>

\* void* buff = jack_port_get_buffer(self.port, nframes); evCount = ...
CbGetBuffer ==
  /\ cb_pc = "l165"
  /\ cb_buf' = IF port = "null" THEN "null"
               ELSE IF registered THEN "valid" ELSE "stale"
  /\ cb_pc' = "loop"
  /\ UNCHANGED <<cb_left, jackVars, asmVars, cfgVars, alsaVars>>

\* the loop is over: return 0
CbReturn ==
  /\ cb_pc = "loop"
  /\ cb_pc' = "idle"
  /\ cb_buf' = "none"
  /\ UNCHANGED <<cb_left, jackVars, asmVars, cfgVars, alsaVars>>

\* midi_in_api's fields and the configuration after construction
AsmInit ==
  /\ continueSysex = FALSE
  /\ firstMessage = TRUE
  /\ lastTime = 0
  /\ message = <<>>
  /\ out = NoMsg
  /\ msg_timing = <<>>
  /\ out_timing = <<>>
  /\ sx = NoSx
  /\ deliveries = 0
  /\ ignore_sysex \in BOOLEAN
  /\ ignore_timing \in BOOLEAN
  /\ ignore_sensing \in BOOLEAN

CbInit ==
  /\ cb_pc = "idle"
  /\ cb_buf = "none"

\* a caller operation's record: what it reported, the outcome of its bind,
\* what it returned, whether it unregistered the port, and (close_port)
\* whether it directly follows another close_port
NoOp == [name |-> "none", bind |-> "none", reports |-> {}, ret |-> -1,
         released |-> FALSE, again |-> "no"]

Op(name, bind, reports) ==
  [name |-> name, bind |-> bind, reports |-> reports, ret |-> -1,
   released |-> FALSE, again |-> "no"]

\* history: how a close_port follows the previous operation
Again(prevName, prevReleased) ==
  IF prevName # "close_port" THEN "no"
  ELSE IF prevReleased THEN "after_release" ELSE "after_noop"

(***************************************************************************)
(* JACK source: the operations of midi_in_jack on the caller thread.       *)
(***************************************************************************)

\* indices a caller passes to open_port: the valid ones and one past them
PortIndices == 0..MaxPorts

\* connect(): the client after the call, given whether the server answers
ConnectClient(cl, up) == IF cl = "null" /\ up THEN "open" ELSE cl

\* connect(): the warning when jack_client_open fails
ConnectReports(cl, up) == IF cl = "null" /\ ~up THEN {"warning"} ELSE {}

\* if (this->port == nullptr) this->port = jack_port_register(...): the
\* native call fails without a client or when the server refuses
RegisterPort(p, cl, regOk) ==
  IF p = "null" THEN (IF cl = "open" /\ regOk THEN "port" ELSE "null") ELSE p

\* get_port_name(portNumber): whether the enumeration holds that index
PortNameValid(cl, i, n) == cl = "open" /\ i < n

\* jack_helpers::get_port_name reports an index outside the enumeration
PortNameReports(cl, i, n) ==
  IF PortNameValid(cl, i, n) THEN {} ELSE {"invalid_parameter"}

\* jack_connect(client, name, port): bound unless the name is unknown, the
\* pair is connected already or the server refuses
BindResult(valid, i, cs, bindOk) ==
  IF valid /\ bindOk /\ i \notin cs THEN "ok" ELSE "failed"

\* connected_ after open_port reached its last statement
ConnectedAfterOpen(bind) == TRUE

JackOpenPort(i, fits, up, regOk, bindOk) ==
  /\ jk_pc = "idle"
  /\ LET cl == ConnectClient(client, up)
         p == RegisterPort(port, cl, regOk)
         valid == PortNameValid(cl, i, nports)
         bind == BindResult(valid, i, conns, bindOk)
     IN IF ~fits
        THEN /\ jk_op' = Op("open_port", "none", {"error"})
             /\ UNCHANGED <<client, port, connected_, registered, conns,
                            lastBind>>
        ELSE IF p = "null"
        THEN /\ client' = cl
             /\ jk_op' = Op("open_port", "none",
                            ConnectReports(client, up) \cup {"driver_error"})
             /\ UNCHANGED <<port, connected_, registered, conns, lastBind>>
        ELSE /\ client' = cl
             /\ port' = p
             /\ registered' = TRUE
             /\ conns' = IF bind = "ok" THEN conns \cup {i} ELSE conns
             /\ lastBind' = bind
             /\ connected_' = ConnectedAfterOpen(bind)
             /\ jk_op' = Op("open_port", bind,
                            ConnectReports(client, up)
                              \cup PortNameReports(cl, i, nports))
  /\ UNCHANGED <<nports, jk_pc, cbVars, asmVars, cfgVars, alsaVars>>

JackOpenVirtualPort(fits, up, regOk) ==
  /\ jk_pc = "idle"
  /\ LET cl == ConnectClient(client, up)
         p == RegisterPort(port, cl, regOk)
     IN IF ~fits
        THEN /\ jk_op' = Op("open_virtual_port", "none", {"error"})
             /\ UNCHANGED <<client, port, registered>>
        ELSE /\ client' = cl
             /\ port' = p
             /\ registered' = (registered \/ p = "port")
             /\ jk_op' = Op("open_virtual_port", "none",
                            ConnectReports(client, up)
                              \cup (IF p = "null" THEN {"driver_error"} ELSE {}))
  /\ UNCHANGED <<connected_, conns, lastBind, nports, jk_pc, cbVars, asmVars,
                 cfgVars, alsaVars>>

\* (mutant) close_port without its test of this->port
ClosePortNeverReturnsEarly(p) == FALSE

\* if (this->port == nullptr) return;
ClosePortReturnsEarly(p) == p = "null"

\* close_port up to jack_port_unregister(this->client, this->port)
JackClosePort ==
  /\ jk_pc = "idle"
  /\ IF ClosePortReturnsEarly(port)
     THEN /\ jk_op' = [Op("close_port", "none", {}) EXCEPT
                        !.again = Again(jk_op.name, jk_op.released)]
          /\ UNCHANGED <<registered, conns, jk_pc>>
     ELSE /\ registered' = FALSE
          /\ conns' = {}
          /\ jk_pc' = "close_87"
          /\ UNCHANGED jk_op
  /\ UNCHANGED <<client, port, connected_, nports, lastBind, cbVars, asmVars,
                 cfgVars, alsaVars>>

\* close_port from this->port = nullptr on
JackClosePortClear ==
  /\ jk_pc = "close_87"
  /\ port' = "null"
  /\ connected_' = FALSE
  /\ jk_pc' = "idle"
  /\ jk_op' = [Op("close_port", "none", {}) EXCEPT
                 !.released = TRUE,
                 !.again = Again(jk_op.name, jk_op.released)]
  /\ UNCHANGED <<client, registered, conns, nports, lastBind, cbVars, asmVars,
                 cfgVars, alsaVars>>

\* if (this->client) jack_client_close(this->client)
ClosedClient(cl) == IF cl = "open" THEN "closed" ELSE cl

\* ~midi_in_jack up to the unregister of its close_port
JackDestructor ==
  /\ jk_pc = "idle"
  /\ IF port = "null"
     THEN /\ client' = ClosedClient(client)
          /\ jk_pc' = "dead"
          /\ jk_op' = Op("destructor", "none", {})
          /\ UNCHANGED <<registered, conns>>
     ELSE /\ registered' = FALSE
          /\ conns' = {}
          /\ jk_pc' = "dtor_87"
          /\ UNCHANGED <<client, jk_op>>
  /\ UNCHANGED <<port, connected_, nports, lastBind, cbVars, asmVars, cfgVars, alsaVars>>

\* ~midi_in_jack from this->port = nullptr of its close_port on
JackDestructorClear ==
  /\ jk_pc = "dtor_87"
  /\ port' = "null"
  /\ connected_' = FALSE
  /\ client' = ClosedClient(client)
  /\ jk_pc' = "dead"
  /\ jk_op' = Op("destructor", "none", {})
  /\ UNCHANGED <<registered, conns, nports, lastBind, cbVars, asmVars, cfgVars, alsaVars>>

JackSetClientName ==
  /\ jk_pc = "idle"
  /\ jk_op' = Op("set_client_name", "none", {"warning"})
  /\ UNCHANGED <<client, port, connected_, registered, conns, nports, lastBind,
                 jk_pc, cbVars, asmVars, cfgVars, alsaVars>>

\* (mutant) get_port_count without its test of this->client
PortCountUnchecked(cl, n) == n

\* the count get_port_count returns
PortCount(cl, n) == IF cl # "open" THEN 0 ELSE n

JackGetPortCount ==
  /\ jk_pc = "idle"
  /\ jk_op' = [Op("get_port_count", "none", {}) EXCEPT
                 !.ret = PortCount(client, nports)]
  /\ UNCHANGED <<client, port, connected_, registered, conns, nports, lastBind,
                 jk_pc, cbVars, asmVars, cfgVars, alsaVars>>

(***************************************************************************)
(* ALSA sink: the operations of midi_out_alsa on the caller thread.        *)
(***************************************************************************)

\* this->bufferSize = 32 in the constructor
BUFFER_SIZE == 32

\* the number of values of `unsigned int bufferSize`: 2^32 in the build,
\* scaled down to 2^UintBits so that message lengths past it can be sent
UintRange == 2 ^ UintBits

\* lengths of the MIDI events a message is made of: short channel and
\* real-time events, a SysEx longer than the initial encode buffer, and a
\* SysEx whose length no unsigned int holds
EvLens == {1, 3, BUFFER_SIZE + 1, UintRange + 1}

\* the messages given to send_message: complete events, then possibly the
\* first bytes (tail) of an event that is not complete
SendEvents == {<<>>} \cup SeqsUpTo(EvLens, MaxSendEvents)

RECURSIVE SumSeq(_)
SumSeq(q) == IF q = <<>> THEN 0 ELSE Head(q) + SumSeq(Tail(q))

Min(a, b) == IF a < b THEN a ELSE b

\* an operation's record: what it reported, the native calls it handed an
\* absent handle, the outcome of its bind, (send_message) its native
\* encoder and queue calls in order and the size of its message, and the
\* states of the subscription handles it gave to snd_seq_port_subscribe_free
AOp(name, reports, absent, bind) ==
  [name |-> name, reports |-> reports, absent |-> absent, bind |-> bind,
   calls |-> <<>>, size |-> 0, ret |-> -1, frees |-> {}, again |-> "no"]

\* one native call of an operation, with the offset and the length it is given
Call(name, off, len) == [call |-> name, off |-> off, len |-> len]

\* alsa_data's members before the constructor assigns them
AlsaDataDefaults ==
  /\ seq = "null"
  /\ vport \in {-1, 0}
  /\ coder = "null"
  /\ subscription = "null"

\* midi_out_alsa(conf, apiconf): snd_seq_open fails, snd_midi_event_new fails,
\* or both succeed
InitAlsaDriver ==
  /\ alsa_connected_ = FALSE
  /\ subs = {}
  /\ alsa_nports \in 0..MaxPorts
  /\ al_pc = "live"
  /\ \/ /\ ctor = "no_seq"
        /\ AlsaDataDefaults
        /\ bufferSize = 0
        /\ coderCap = 0
        /\ al_op = AOp("constructor", {"driver_error"}, {}, "none")
     \/ /\ ctor = "no_coder"
        /\ seq = "open"
        /\ vport = -1
        /\ bufferSize = BUFFER_SIZE
        /\ coder = "null"
        /\ coderCap = 0
        /\ subscription = "null"
        /\ al_op = AOp("constructor", {"driver_error"}, {}, "none")
     \/ /\ ctor = "ok"
        /\ seq = "open"
        /\ vport = -1
        /\ bufferSize = BUFFER_SIZE
        /\ coder = "coder"
        /\ coderCap = BUFFER_SIZE
        /\ subscription = "null"
        /\ al_op = AOp("constructor", {}, {}, "none")

\* alsa_data::get_port_count(caps): the enumeration of the native
\* sequencer; an unreachable sequencer yields 0
AlsaPortCount(sq, n) == IF sq = "open" THEN n ELSE 0

\* alsa_seq::port_info(seq, pinfo, caps, portNumber) == 0
PortInfoMissing(i, count) == i >= count

\* a native call was handed an absent handle and the process did not survive
Aborts(absent, crash) == absent # {} /\ crash

\* (mutant) open_port rejects every call
OpenPortAlwaysRejects(c) == TRUE

\* if (connected_) { warning(...); return; }
OpenPortRejects(c) == c

AlsaOpenPort(i, portOk, mallocOk, subOk) ==
  /\ al_pc = "live"
  /\ LET count == AlsaPortCount(seq, alsa_nports)
         absent == {}
         vp == IF vport < 0 THEN (IF portOk THEN 0 ELSE -1) ELSE vport
     IN IF OpenPortRejects(alsa_connected_)
        THEN /\ al_op' = AOp("open_port", {"warning"}, {}, "none")
             /\ UNCHANGED <<vport, subscription, alsa_connected_, subs, al_pc>>
        ELSE IF count < 1
        THEN /\ al_op' = AOp("open_port", {"no_devices_found"}, absent, "none")
             /\ UNCHANGED <<vport, subscription, alsa_connected_, subs, al_pc>>
        ELSE IF PortInfoMissing(i, count)
        THEN /\ al_op' = AOp("open_port", {"invalid_parameter"}, absent, "none")
             /\ UNCHANGED <<vport, subscription, alsa_connected_, subs, al_pc>>
        ELSE IF vp < 0
        THEN /\ vport' = vp
             /\ al_op' = AOp("open_port", {"driver_error"}, absent, "none")
             /\ UNCHANGED <<subscription, alsa_connected_, subs, al_pc>>
        ELSE IF ~mallocOk
        THEN /\ vport' = vp
             /\ subscription' = "null"
             /\ al_op' = [AOp("open_port", {"driver_error"}, absent, "failed")
                            EXCEPT !.frees = {"null"}]
             /\ UNCHANGED <<alsa_connected_, subs, al_pc>>
        ELSE IF ~subOk
        THEN /\ vport' = vp
             /\ subscription' = "freed"
             /\ al_op' = [AOp("open_port", {"driver_error"}, absent, "failed")
                            EXCEPT !.frees = {"alloc"}]
             /\ UNCHANGED <<alsa_connected_, subs, al_pc>>
        ELSE /\ vport' = vp
             /\ subscription' = "alloc"
             /\ subs' = subs \cup {i}
             /\ alsa_connected_' = TRUE
             /\ al_op' = AOp("open_port", {}, absent, "ok")
             /\ UNCHANGED al_pc
  /\ UNCHANGED <<seq, coder, bufferSize, coderCap, alsa_nports, ctor>>
  /\ UNCHANGED <<jackVars, cbVars, asmVars, cfgVars>>

AlsaOpenVirtualPort(portOk, crash) ==
  /\ al_pc = "live"
  /\ LET absent == IF vport < 0 /\ seq # "open"
                   THEN {"snd_seq_create_simple_port"} ELSE {}
         vp == IF seq = "open" /\ portOk THEN 0 ELSE -1
     IN IF vport >= 0
        THEN /\ al_op' = AOp("open_virtual_port", {}, {}, "none")
             /\ UNCHANGED <<vport, al_pc>>
        ELSE IF Aborts(absent, crash)
        THEN /\ al_op' = AOp("open_virtual_port", {}, absent, "none")
             /\ al_pc' = "aborted"
             /\ UNCHANGED vport
        ELSE /\ vport' = vp
             /\ al_op' = AOp("open_virtual_port",
                             IF vp < 0 THEN {"driver_error"} ELSE {},
                             absent, "none")
             /\ UNCHANGED al_pc
  /\ UNCHANGED <<seq, coder, bufferSize, coderCap, subscription,
                 alsa_connected_, subs, alsa_nports, ctor>>
  /\ UNCHANGED <<jackVars, cbVars, asmVars, cfgVars>>

AlsaClosePort ==
  /\ al_pc = "live"
  /\ IF alsa_connected_
     THEN /\ subs' = {}
          /\ subscription' = "null"
          /\ alsa_connected_' = FALSE
     ELSE UNCHANGED <<subs, subscription, alsa_connected_>>
  /\ al_op' = [AOp("close_port", {}, {}, "none") EXCEPT
                 !.calls = IF alsa_connected_
                           THEN <<Call("unsubscribe", 0, 0), Call("free", 0, 0)>>
                           ELSE <<>>,
                 !.frees = IF alsa_connected_ THEN {subscription} ELSE {},
                 !.again = Again(al_op.name, al_op.calls # <<>>)]
  /\ UNCHANGED <<seq, vport, coder, bufferSize, coderCap, alsa_nports, ctor,
                 al_pc>>
  /\ UNCHANGED <<jackVars, cbVars, asmVars, cfgVars>>

AlsaGetPortCount ==
  /\ al_pc = "live"
  /\ al_op' = [AOp("get_port_count", {}, {}, "none") EXCEPT
                 !.ret = AlsaPortCount(seq, alsa_nports)]
  /\ UNCHANGED <<al_pc, seq, vport, coder, bufferSize, coderCap, subscription,
                 alsa_connected_, subs, alsa_nports, ctor>>
  /\ UNCHANGED <<jackVars, cbVars, asmVars, cfgVars>>

\* this->bufferSize = size: the size_t length converted to unsigned int
StoredSize(size) == size % UintRange

\* (mutant) the offset is not advanced
SameOffset(offset, result) == offset

\* offset += result
NextOffset(offset, result) == offset + result

\* the while loop of send_message from `offset` on: `rem` are the events
\* not yet encoded, `k` counts the iterations, the iteration `fail.at` fails
\* in its encode or its output; the encoder hands out at most `cap` bytes
RECURSIVE SendLoop(_, _, _, _, _, _)
SendLoop(rem, tail, offset, k, fail, cap) ==
  IF rem = <<>>
  THEN IF tail = 0
       THEN [log |-> <<Call("drain", offset, 0)>>, reports |-> {}]
       ELSE [log |-> <<Call("encode", offset, tail)>>, reports |-> {"warning"}]
  ELSE LET n == Min(Head(rem), cap)
           rest == IF n < Head(rem) THEN <<Head(rem) - n>> \o Tail(rem)
                   ELSE Tail(rem)
           enc == Call("encode", offset, n)
           outp == Call("output", offset, n)
       IN IF fail.at = k /\ fail.kind = "encode"
          THEN [log |-> <<enc>>, reports |-> {"warning"}]
          ELSE IF fail.at = k /\ fail.kind = "output"
          THEN [log |-> <<enc, outp>>, reports |-> {"warning"}]
          ELSE LET r == SendLoop(rest, tail, NextOffset(offset, n), k + 1,
                                 fail, cap)
               IN [log |-> <<enc, outp>> \o r.log, reports |-> r.reports]

\* the ways one send_message can fail: not at all, in the resize of the
\* encoder, or in the encode or the output of one iteration of the loop
SendFailures ==
  {[at |-> 0, kind |-> "none"], [at |-> 0, kind |-> "resize"]}
    \cup [at : 1..(MaxSendEvents + 1), kind : {"encode", "output"}]

\* the native calls of a send that are handed an absent handle
SendAbsent(log, cd, sq) ==
  {c.call : c \in {log[j] : j \in 1..Len(log)}} \cap
    ((IF cd = "coder" THEN {} ELSE {"resize", "encode"})
       \cup (IF sq = "open" THEN {} ELSE {"output", "drain"}))

AlsaSendMessage(events, tail, fail, crash) ==
  /\ al_pc = "live"
  /\ LET size == SumSeq(events) + tail
         grows == size > bufferSize
         resized == grows /\ fail.kind # "resize" /\ coder = "coder"
         cap == IF resized THEN size ELSE coderCap
         pre == IF grows THEN <<Call("resize", 0, size)>> ELSE <<>>
         \* an absent encoder fails the first encode
         f == IF coder = "coder" THEN fail ELSE [at |-> 1, kind |-> "encode"]
         loop == IF grows /\ ~resized
                 THEN [log |-> <<>>, reports |-> {"driver_error"}]
                 ELSE SendLoop(events, tail, 0, 1, f, IF cap > 0 THEN cap ELSE 1)
         log == pre \o loop.log
         absent == SendAbsent(log, coder, seq)
     IN /\ bufferSize' = IF grows THEN StoredSize(size) ELSE bufferSize
        /\ coderCap' = cap
        /\ al_op' = [AOp("send_message", loop.reports, absent, "none")
                       EXCEPT !.calls = log, !.size = size]
        /\ al_pc' = IF Aborts(absent, crash) THEN "aborted" ELSE al_pc
  /\ UNCHANGED <<seq, vport, coder, subscription, alsa_connected_, subs,
                 alsa_nports, ctor>>
  /\ UNCHANGED <<jackVars, cbVars, asmVars, cfgVars>>

\* ~midi_out_alsa: close_port, then delete the port, free the encoder and
\* close the sequencer
AlsaDestructor ==
  /\ al_pc = "live"
  /\ subs' = {}
  /\ subscription' = IF alsa_connected_ THEN "null" ELSE subscription
  /\ alsa_connected_' = FALSE
  /\ vport' = vport
  /\ coder' = IF coder = "coder" THEN "freed" ELSE coder
  /\ seq' = IF seq = "open" THEN "closed" ELSE seq
  /\ al_op' = [AOp("destructor", {},
                   IF seq = "open" THEN {}
                   ELSE {"snd_seq_close"}
                          \cup (IF vport >= 0 THEN {"snd_seq_delete_port"}
                                ELSE {}),
                   "none")
                 EXCEPT !.frees = IF alsa_connected_ THEN {subscription}
                                  ELSE {}]
  /\ al_pc' = "dead"
  /\ UNCHANGED <<bufferSize, coderCap, alsa_nports, ctor>>
  /\ UNCHANGED <<jackVars, cbVars, asmVars, cfgVars>>

\* set_client_name(clientName) / set_port_name(portName) is entered; ret
\* counts the nested calls of the function to itself
AlsaSetName(name) ==
  /\ al_pc = "live"
  /\ al_pc' = "renaming"
  /\ al_op' = [AOp(name, {}, {}, "none") EXCEPT !.ret = 0]
  /\ UNCHANGED <<seq, vport, coder, bufferSize, coderCap, subscription,
                 alsa_connected_, subs, alsa_nports, ctor>>
  /\ UNCHANGED <<jackVars, cbVars, asmVars, cfgVars>>

\* the body: this->set_client_name(clientName), one more frame on the stack
AlsaSetNameRecurse ==
  /\ al_pc = "renaming"
  /\ al_op.ret < MaxCallDepth
  /\ al_op' = [al_op EXCEPT !.ret = al_op.ret + 1]
  /\ UNCHANGED <<al_pc, seq, vport, coder, bufferSize, coderCap, subscription,
                 alsa_connected_, subs, alsa_nports, ctor>>
  /\ UNCHANGED <<jackVars, cbVars, asmVars, cfgVars>>

\* the call to itself with the stack exhausted: the process does not survive
AlsaSetNameOverflow ==
  /\ al_pc = "renaming"
  /\ al_op.ret = MaxCallDepth
  /\ al_pc' = "aborted"
  /\ UNCHANGED <<al_op, seq, vport, coder, bufferSize, coderCap, subscription,
                 alsa_connected_, subs, alsa_nports, ctor>>
  /\ UNCHANGED <<jackVars, cbVars, asmVars, cfgVars>>

\* the call to itself compiled as a jump: the function loops for ever
AlsaSetNameLoop ==
  /\ al_pc = "renaming"
  /\ al_pc' = "spinning"
  /\ UNCHANGED <<al_op, seq, vport, coder, bufferSize, coderCap, subscription,
                 alsa_connected_, subs, alsa_nports, ctor>>
  /\ UNCHANGED <<jackVars, cbVars, asmVars, cfgVars>>

\* the JACK source is not in use
JackUnused ==
  /\ client = "null"
  /\ port = "null"
  /\ connected_ = FALSE
  /\ registered = FALSE
  /\ conns = {}
  /\ nports = 0
  /\ lastBind = "none"
  /\ jk_pc = "idle"
  /\ jk_op = NoOp
  /\ cb_left = 0
  /\ CbInit
  /\ AsmInit
  /\ ~ignore_sysex /\ ~ignore_timing /\ ~ignore_sensing

\* the ALSA sink is not in use
AlsaUnused ==
  /\ seq = "null"
  /\ vport = -1
  /\ coder = "null"
  /\ bufferSize = 0
  /\ coderCap = 0
  /\ subscription = "null"
  /\ alsa_connected_ = FALSE
  /\ subs = {}
  /\ alsa_nports = 0
  /\ ctor = "ok"
  /\ al_pc = "dead"
  /\ al_op = AOp("none", {}, {}, "none")

InitAlsa == InitAlsaDriver /\ JackUnused

NextAlsa ==
  \/ \E i \in PortIndices, portOk, mallocOk, subOk \in BOOLEAN :
       AlsaOpenPort(i, portOk, mallocOk, subOk)
  \/ \E portOk, crash \in BOOLEAN : AlsaOpenVirtualPort(portOk, crash)
  \/ AlsaClosePort
  \/ AlsaGetPortCount
  \/ \E ev \in SendEvents, tail \in 0..1, fail \in SendFailures,
        crash \in BOOLEAN :
       AlsaSendMessage(ev, tail, fail, crash)
  \/ AlsaDestructor

SpecAlsa == InitAlsa /\ [][NextAlsa]_vars

\* the source after its constructor: no port, the client if the server answers
InitJack ==
  /\ port = "null"
  /\ \E up \in BOOLEAN :
       /\ client = ConnectClient("null", up)
       /\ jk_op = Op("constructor", "none", ConnectReports("null", up))
  /\ connected_ = FALSE
  /\ registered = FALSE
  /\ conns = {}
  /\ lastBind = "none"
  /\ nports \in 0..MaxPorts
  /\ jk_pc = "idle"
  /\ cb_left = MaxRaceEvents
  /\ CbInit
  /\ AsmInit
  /\ AlsaUnused

NextJack ==
  \/ \E i \in PortIndices, fits, up, regOk, bindOk \in BOOLEAN :
       JackOpenPort(i, fits, up, regOk, bindOk)
  \/ \E fits, up, regOk \in BOOLEAN : JackOpenVirtualPort(fits, up, regOk)
  \/ JackClosePort
  \/ JackClosePortClear
  \/ JackDestructor
  \/ JackDestructorClear
  \/ JackSetClientName
  \/ JackGetPortCount
  \/ CbCheckPort
  \/ CbGetBuffer
  \/ \E f \in ShortFragments, t \in 0..MaxTime :
       t >= lastTime /\ CbEventRace(f, t)
  \/ CbReturn

SpecJack == InitJack /\ [][NextJack]_vars

\* the source after open_port succeeded: the port is registered and bound
InitAsm ==
  /\ client = "open"
  /\ port = "port"
  /\ registered = TRUE
  /\ connected_ = TRUE
  /\ nports = 1
  /\ conns = {0}
  /\ lastBind = "ok"
  /\ jk_pc = "idle"
  /\ jk_op = Op("open_port", "ok", {})
  /\ cb_left = 0
  /\ CbInit
  /\ AsmInit
  /\ AlsaUnused

NextAsm ==
  \/ CbCheckPort
  \/ CbGetBuffer
  \/ \E f \in Fragments, t \in 0..MaxTime : t >= lastTime /\ CbEvent(f, t)
  \/ CbReturn

SpecAsm == InitAsm /\ [][NextAsm]_vars

\* the ALSA sink's port operations and its two renaming operations
NextNames ==
  \/ \E i \in PortIndices, portOk, mallocOk, subOk \in BOOLEAN :
       AlsaOpenPort(i, portOk, mallocOk, subOk)
  \/ \E portOk, crash \in BOOLEAN : AlsaOpenVirtualPort(portOk, crash)
  \/ AlsaClosePort
  \/ \E name \in {"set_client_name", "set_port_name"} : AlsaSetName(name)
  \/ AlsaSetNameRecurse
  \/ AlsaSetNameOverflow
  \/ AlsaSetNameLoop

\* a renaming operation that was entered keeps running
SpecNames ==
  /\ InitAlsa
  /\ [][NextNames]_vars
  /\ WF_vars(AlsaSetNameRecurse \/ AlsaSetNameOverflow \/ AlsaSetNameLoop)

\* a constructed ALSA sink that is only sent to
InitSend ==
  /\ InitAlsa
  /\ ctor = "ok"
  /\ vport = -1
  /\ alsa_nports = 0

NextSend ==
  \E ev \in SendEvents, tail \in 0..1, fail \in SendFailures :
    AlsaSendMessage(ev, tail, fail, FALSE)

SpecSend == InitSend /\ [][NextSend]_vars

\* a JACK source and an ALSA sink side by side, each after its constructor;
\* the server delivers no event
InitPorts ==
  /\ port = "null"
  /\ \E up \in BOOLEAN :
       /\ client = ConnectClient("null", up)
       /\ jk_op = Op("constructor", "none", ConnectReports("null", up))
  /\ connected_ = FALSE
  /\ registered = FALSE
  /\ conns = {}
  /\ lastBind = "none"
  /\ nports \in 0..MaxPorts
  /\ jk_pc = "idle"
  /\ cb_left = 0
  /\ CbInit
  /\ AsmInit
  /\ ~ignore_sysex /\ ~ignore_timing /\ ~ignore_sensing
  /\ InitAlsaDriver

\* the operations of both drivers that open and close ports
NextPorts ==
  \/ \E i \in PortIndices, fits, up, regOk, bindOk \in BOOLEAN :
       JackOpenPort(i, fits, up, regOk, bindOk)
  \/ \E fits, up, regOk \in BOOLEAN : JackOpenVirtualPort(fits, up, regOk)
  \/ JackClosePort
  \/ JackClosePortClear
  \/ JackDestructor
  \/ JackDestructorClear
  \/ \E i \in PortIndices, portOk, mallocOk, subOk \in BOOLEAN :
       AlsaOpenPort(i, portOk, mallocOk, subOk)
  \/ \E portOk, crash \in BOOLEAN : AlsaOpenVirtualPort(portOk, crash)
  \/ AlsaClosePort
  \/ AlsaDestructor

SpecPorts == InitPorts /\ [][NextPorts]_vars

(***************************************************************************)
(* Properties.                                                             *)
(***************************************************************************)

\* C1 (SpecJack): whatever the interleaving of close_port with a process
\* callback, the callback never hands jack_port_get_buffer a port that has
\* been unregistered (or the null port that close_port left behind).
C1_CallbackNeverUsesClosedPort == cb_buf \notin {"stale", "null"}

\* C2 (SpecJack): open_port (with a name that fits) on a Connected JACK
\* source reports a warning, issues no native bind and leaves connected_,
\* the local port and the native connections as they were.
C2_OpenPortWhileConnectedIsRejected ==
  [][\A i \in PortIndices, up, regOk, bindOk \in BOOLEAN :
       (connected_ /\ JackOpenPort(i, TRUE, up, regOk, bindOk))
         => /\ jk_op'.reports = {"warning"}
            /\ jk_op'.bind = "none"
            /\ UNCHANGED <<connected_, port, conns>>]_vars

\* C2, the ALSA sink (SpecAlsa): the same rejection.
C2_AlsaOpenPortWhileConnectedIsRejected ==
  [][\A i \in PortIndices, portOk, mallocOk, subOk \in BOOLEAN :
       (alsa_connected_ /\ AlsaOpenPort(i, portOk, mallocOk, subOk))
         => /\ al_op'.reports = {"warning"}
            /\ al_op'.bind = "none"
            /\ UNCHANGED <<alsa_connected_, vport, subs, subscription>>]_vars

\* C3 (SpecJack): open_port on a Ready JACK source (client open, not
\* connected, a name that fits, the port registrable) with an index at or
\* past the enumerated count reports invalid-parameter, stays not connected
\* and creates neither the local port nor a native connection.
C3_OpenPortBadIndexChangesNothing ==
  [][\A i \in PortIndices, up, regOk, bindOk \in BOOLEAN :
       (/\ client = "open"
        /\ ~connected_
        /\ i >= nports
        /\ (regOk \/ port # "null")
        /\ JackOpenPort(i, TRUE, up, regOk, bindOk))
         => /\ "invalid_parameter" \in jk_op'.reports
            /\ UNCHANGED <<connected_, port, conns>>]_vars

\* C3, the ALSA sink (SpecAlsa): with a non-empty enumeration an index at or
\* past the count reports invalid-parameter and changes nothing.
C3_AlsaOpenPortBadIndexChangesNothing ==
  [][\A i \in PortIndices, portOk, mallocOk, subOk \in BOOLEAN :
       (/\ seq = "open"
        /\ ~alsa_connected_
        /\ alsa_nports >= 1
        /\ i >= alsa_nports
        /\ AlsaOpenPort(i, portOk, mallocOk, subOk))
         => /\ al_op'.reports = {"invalid_parameter"}
            /\ UNCHANGED <<alsa_connected_, vport, subs, subscription>>]_vars

\* C4 (SpecJack): the JACK source is connected only if its most recent native
\* bind succeeded, and an open_port whose bind failed reported a driver error
\* and left the source not connected.
C4_ConnectedOnlyIfBindSucceeded ==
  /\ connected_ => lastBind = "ok"
  /\ (jk_op.name = "open_port" /\ jk_op.bind = "failed")
       => ("driver_error" \in jk_op.reports /\ ~connected_)

\* C4, the ALSA sink (SpecAlsa): connected only with a live subscription, and
\* a failed bind reported a driver error and left the sink not connected.
C4_AlsaConnectedOnlyIfBindSucceeded ==
  /\ alsa_connected_ => (subscription = "alloc" /\ subs # {})
  /\ (al_op.name = "open_port" /\ al_op.bind = "failed")
       => ("driver_error" \in al_op.reports /\ ~alsa_connected_)

\* C5 (SpecAsm): with ignore_timing set, no byte of a fragment that starts
\* with 0xF1 or 0xF8 is part of a message handed to the callback.
C5_TimingBytesNeverDelivered ==
  ignore_timing => \A j \in 1..Len(out_timing) : ~out_timing[j]

\* C6 (SpecAsm): the first message ever handed to the callback carries
\* timestamp 0, whatever fragments and filters preceded it.
C6_FirstDeliveredTimestampZero ==
  (deliveries = 1 /\ out # NoMsg) => out.timestamp = 0

\* C7 (SpecAsm): with ignore_sysex clear, a SysEx message that starts while no
\* continuation is pending with a fragment 0xF0 ... not ending in 0xF7, and
\* goes on with continuation fragments (first byte none of 0xF0, 0xF1, 0xF8,
\* 0xFE), is not delivered before the fragment that ends in 0xF7; that
\* fragment delivers one message, the fragments' bytes in arrival order, and
\* leaves continueSysex false and the accumulator empty.
C7_SplitSysexDeliveredWhole ==
  /\ sx.st = "run" => (out = NoMsg /\ continueSysex /\ message = sx.bytes)
  /\ sx.st = "done" =>
       (out # NoMsg /\ out.bytes = sx.bytes /\ ~continueSysex /\ message = <<>>)

\* C7: two or more fragments have been delivered as one message.
C7_Witness ==
  /\ ~ignore_sysex
  /\ sx.st = "done"
  /\ Len(sx.bytes) = MaxAcc
  /\ out.bytes = sx.bytes
  /\ out.bytes[1] = SYSEX_START
  /\ Last(out.bytes) = SYSEX_END

\* C8 (SpecAsm): with ignore_sysex set, an event that starts with 0xF0 or is
\* processed while a continuation is pending delivers nothing and adds no
\* byte to the accumulator; a start or continuation fragment that ends in
\* 0xF7 leaves continueSysex false.
C8_IgnoredSysexNeverDelivered ==
  [][\A f \in Fragments, t \in 0..MaxTime :
       (/\ ignore_sysex
        /\ (f[1] = SYSEX_START \/ continueSysex)
        /\ CbEvent(f, t))
         => /\ out' = NoMsg
            /\ deliveries' = deliveries
            /\ message' = (IF continueSysex THEN message ELSE <<>>)
            /\ ((f[1] = SYSEX_START \/ IsContinuation(f)) /\ EndsSysex(f))
                 => ~continueSysex']_vars

\* C8: under ignore_sysex a SysEx start has been processed and its
\* continuation is pending; nothing has been delivered.
C8_Witness ==
  /\ ignore_sysex
  /\ continueSysex
  /\ ~firstMessage
  /\ deliveries = 0

\* C9 (SpecAlsa): send_message of a non-empty message on a constructed sink
\* that is not connected reports a warning and makes no native encoder or
\* queue call.
C9_SendWhileDisconnectedQueuesNothing ==
  (/\ ctor = "ok"
   /\ al_op.name = "send_message"
   /\ al_op.size > 0
   /\ ~alsa_connected_)
    => (al_op.reports = {"warning"} /\ al_op.calls = <<>>)

\* C10 (SpecAlsa): after a failed construction no operation hands the absent
\* sequencer or the absent encoder to a native call.
C10_FailedConstructionNeverUsesAbsentHandle ==
  ctor # "ok" => al_op.absent = {}

\* C11 (SpecPorts): for both drivers close_port leaves the driver not
\* connected, and a close_port that directly follows a close_port makes no
\* native unregister, unsubscribe or free call, reports nothing and leaves
\* every field of the driver as it was.
C11_ClosePortIdempotent ==
  [][/\ ((JackClosePort \/ JackClosePortClear) /\ jk_pc' = "idle")
          => ~connected_'
     /\ (jk_op.name = "close_port" /\ JackClosePort)
          => /\ jk_pc' = "idle"
             /\ ~jk_op'.released
             /\ jk_op'.reports = {}
             /\ UNCHANGED <<client, port, connected_, registered, conns,
                            lastBind>>
     /\ AlsaClosePort => ~alsa_connected_'
     /\ (al_op.name = "close_port" /\ AlsaClosePort)
          => /\ al_op'.calls = <<>>
             /\ al_op'.frees = {}
             /\ al_op'.reports = {}
             /\ UNCHANGED <<seq, vport, coder, bufferSize, coderCap,
                            subscription, alsa_connected_, subs>>]_vars

\* C11: in both drivers a close_port has directly followed the close_port
\* that released a bound port.
C11_Witness ==
  /\ jk_op.name = "close_port"
  /\ jk_op.again = "after_release"
  /\ lastBind = "ok"
  /\ al_op.name = "close_port"
  /\ al_op.again = "after_release"
  /\ vport >= 0

\* C12 (SpecAlsa): after a send_message that ran without a report on a
\* constructed sink and whose message was longer than the recorded capacity
\* (so that it resized the encoder), the recorded capacity bufferSize equals
\* the message length.
C12_CapacityEqualsLongMessageLength ==
  (/\ ctor = "ok"
   /\ al_op.name = "send_message"
   /\ al_op.reports = {}
   /\ al_op.calls # <<>>
   /\ al_op.calls[1].call = "resize")
    => bufferSize = al_op.size

\* the output calls of a log of native calls
Outputs(log) == SelectSeq(log, LAMBDA c : c.call = "output")

RECURSIVE SumLens(_)
SumLens(log) == IF log = <<>> THEN 0 ELSE Head(log).len + SumLens(Tail(log))

\* C13 (SpecSend): in every send_message each encode starts at the offset
\* that is the sum of the lengths queued before it, each encoded chunk is
\* queued (same offset, same length) directly after its encode and before
\* any further encode, nothing is queued without its encode, and on a run
\* without a report the queued lengths sum to the message length.
C13_ChunksSequentialContiguous ==
  al_op.name = "send_message" =>
    LET log == al_op.calls
    IN /\ \A j \in 1..Len(log) :
            log[j].call = "encode" =>
              /\ log[j].off = SumLens(Outputs(SubSeq(log, 1, j - 1)))
              /\ j < Len(log) =>
                    /\ log[j + 1].call = "output"
                    /\ log[j + 1].off = log[j].off
                    /\ log[j + 1].len = log[j].len
       /\ \A j \in 1..Len(log) :
            log[j].call = "output" => (j > 1 /\ log[j - 1].call = "encode")
       /\ al_op.reports = {} => SumLens(Outputs(log)) = al_op.size

\* C13: a send_message has queued two chunks, the second where the first
\* ended, and ran to its end.
C13_Witness ==
  /\ al_op.name = "send_message"
  /\ al_op.reports = {}
  /\ Len(Outputs(al_op.calls)) >= 2
  /\ Outputs(al_op.calls)[2].off = Outputs(al_op.calls)[1].len
  /\ Outputs(al_op.calls)[1].len > 0

\* C14 (SpecAsm): with ignore_timing set, an event whose first byte is 0xF1
\* or 0xF8 leaves continueSysex as it was, whether or not a continuation is
\* pending.
C14_FilteredTimingKeepsContinuation ==
  [][\A f \in Fragments, t \in 0..MaxTime :
       (/\ ignore_timing
        /\ f[1] \in {TIME_CODE, TIMING_CLOCK}
        /\ CbEvent(f, t))
         => continueSysex' = continueSysex]_vars

\* C14: a filtered timing fragment has been processed while a continuation
\* was pending, and the continuation is still pending.
C14_Witness ==
  /\ ignore_timing
  /\ continueSysex
  /\ msg_timing # <<>>
  /\ Last(msg_timing)
  /\ message[1] = SYSEX_START

\* C15 (SpecPorts): in both drivers open_virtual_port leaves the connected
\* flag and the native bindings as they were and issues no bind; it leaves
\* the local endpoint present unless it reported an error (or, for the sink,
\* did not survive a native call on an absent sequencer); and the open_port
\* that follows it on a driver that is not connected is not rejected: the
\* source goes on to its bind, the sink reports no 'already connected'
\* warning.
C15_OpenVirtualPortNeverConnects ==
  [][/\ \A fits, up, regOk \in BOOLEAN :
          JackOpenVirtualPort(fits, up, regOk)
            => /\ UNCHANGED <<connected_, conns, lastBind>>
               /\ jk_op'.bind = "none"
               /\ (port' # "null" \/ jk_op'.reports # {})
     /\ \A i \in PortIndices, up, regOk, bindOk \in BOOLEAN :
          (/\ jk_op.name = "open_virtual_port"
           /\ port # "null"
           /\ ~connected_
           /\ JackOpenPort(i, TRUE, up, regOk, bindOk))
            => jk_op'.bind # "none"
     /\ \A portOk, crash \in BOOLEAN :
          AlsaOpenVirtualPort(portOk, crash)
            => /\ UNCHANGED <<alsa_connected_, subs, subscription>>
               /\ al_op'.bind = "none"
               /\ \/ vport' >= 0
                  \/ "driver_error" \in al_op'.reports
                  \/ al_pc' = "aborted"
     /\ \A i \in PortIndices, portOk, mallocOk, subOk \in BOOLEAN :
          (/\ al_op.name = "open_virtual_port"
           /\ ~alsa_connected_
           /\ AlsaOpenPort(i, portOk, mallocOk, subOk))
            => "warning" \notin al_op'.reports]_vars

\* C15: both drivers have run open_virtual_port from Ready: the local
\* endpoint exists and neither driver is connected or bound.
C15_Witness ==
  /\ jk_op.name = "open_virtual_port"
  /\ port = "port"
  /\ registered
  /\ ~connected_
  /\ conns = {}
  /\ al_op.name = "open_virtual_port"
  /\ vport >= 0
  /\ ~alsa_connected_
  /\ subs = {}
  /\ subscription = "null"

\* C16 (SpecJack): get_port_count of the JACK source returns 0 when the
\* client is absent or the enumeration is empty and the number of enumerated
\* endpoints otherwise, reports nothing and changes no field of the driver.
C16_PortCountZeroWithoutClient ==
  [][JackGetPortCount
       => /\ jk_op'.ret = (IF client = "open" /\ nports > 0 THEN nports ELSE 0)
          /\ jk_op'.reports = {}
          /\ UNCHANGED <<client, port, connected_, registered, conns, nports,
                         lastBind, jk_pc>>]_vars

\* C16: get_port_count has returned 0 on a source without a client while
\* the native subsystem has endpoints.
C16_Witness ==
  /\ jk_op.name = "get_port_count"
  /\ client = "null"
  /\ nports > 0
  /\ jk_op.ret = 0
  /\ jk_op.reports = {}

\* C17 (SpecNames): a set_client_name or set_port_name of the ALSA sink that
\* was entered returns to its caller.
C17_SetNameReturns == (al_pc = "renaming") ~> (al_pc = "live")

\* C18 (SpecSend): on a constructed sink, after a send_message whose length
\* an unsigned int holds, the recorded capacity bufferSize is the capacity
\* the native encoder has.
C18_RecordedCapacityIsEncoderCapacity ==
  (/\ ctor = "ok"
   /\ al_op.name = "send_message"
   /\ al_op.size < UintRange)
    => bufferSize = coderCap

\* C19 (SpecAlsa): every handle an operation of the sink gives to
\* snd_seq_port_subscribe_free is an allocated subscription that has not
\* been freed, and an allocated subscription is held only while the sink is
\* connected (so that close_port or the destructor frees it).
C19_SubscriptionFreedExactlyOnce ==
  /\ al_op.frees \subseteq {"alloc"}
  /\ subscription = "alloc" => (alsa_connected_ /\ al_pc # "dead")

\* C20 (SpecSend): a send_message that queued a chunk (its output call
\* succeeded, so that further native calls follow it) ends with the drain
\* request.
C20_QueuedChunksAreDrained ==
  al_op.name = "send_message" =>
    LET log == al_op.calls
    IN \A j \in 1..Len(log) :
         (log[j].call = "output" /\ j < Len(log))
           => log[Len(log)].call = "drain"

====
